---- MODULE Spec2Model ----
(***************************************************************************)
(* SecureX worker: the request data path (main.gateway), the key/value     *)
(* counters behind the rate limiter and the risk scorer, the decision      *)
(* engine, the project-config snapshot and the audit hand-off.             *)
(*                                                                         *)
(* Conventions.  Risk scores are kept in hundredths (0.93 is 93).  Python  *)
(* None is the string "None".  An optional header is a sequence of length  *)
(* 0 (absent) or 1.  A path is the sequence of its non-empty segments.     *)
(* The handler runs on one asyncio loop and the redis client is            *)
(* synchronous, so everything between two awaits is one atomic step.       *)
(***************************************************************************)
EXTENDS Integers, Sequences, FiniteSets, TLC

(* ------------------------------ bounds -------------------------------- *)

\* Requests that arrive in one behaviour.
MaxReqs == 2
\* Largest remaining-requests input make_decision is applied to.
MaxRemaining == 7
\* Largest risk score (hundredths) make_decision is applied to.
MaxRisk == 100
\* Consecutive failed refreshes the control plane inflicts (SpecConfig).
MaxFailures == 5
\* Calls of emit_traffic_event, and POSTs of the sender, in one behaviour
\* of SpecAudit.
MaxEmits == 4
MaxPosts == 4
\* Calls of check_rate_limit in one behaviour of SpecRate.
MaxRateCalls == 4
\* Largest velocity count, and most other endpoints in the drift set, that
\* compute_risk_score starts from; its calls in one behaviour of SpecRisk.
MaxVelocity == 32
MaxDrift == 6
MaxRiskCalls == 2
MaxStarts == 2

Reqs == 1..MaxReqs

(* ------------------------- program constants -------------------------- *)

QUEUE_MAX_SIZE == 1000
WINDOW_SECONDS == 60
MIN_KEY_LENGTH == 20

None == "None"

ENDPOINT_LIMITS ==
    [HIGH   |-> [rpm |-> 10,  burst |-> 5],
     MEDIUM |-> [rpm |-> 60,  burst |-> 20],
     LOW    |-> [rpm |-> 300, burst |-> 50]]

DEFAULT_PROFILE == "MEDIUM"

(* ------------------------------ inputs -------------------------------- *)

VALID_KEY == "test-key-123-must-be-longer-than-20-chars"
SHORT_KEY == "short-key-123"
WRONG_KEY == "wrong-key-that-no-project-was-given"

\* The x-api-key header of a request: absent, empty, or a raw key.
ApiKeyHeaders == {<<>>, <<"">>, <<SHORT_KEY>>, <<VALID_KEY>>, <<WRONG_KEY>>}

GatewayMethods == {"GET", "POST", "PUT", "DELETE", "PATCH"}
\* Methods the model sends: one of the gateway route's and OPTIONS.
Methods == {"GET", "OPTIONS"}

\* Raw paths, as the sequence of their non-empty segments.
Paths == {<<"users", "123">>, <<"auth", "login">>}

CLIENT_IP == "10.0.0.1"

\* Statuses an upstream answers with.
UpstreamStatuses == {200, 401}

(* ------------------------------ state --------------------------------- *)

VARIABLES
    req,                \* per request: position in main.gateway and its locals
    projects_by_key,    \* ConfigManager._projects_by_key
    redis,              \* the KV store: integer keys, set keys, TTLs
    minute,             \* rate_limit._current_minute()
    worker_started,     \* traffic_logger._worker_started
    log_queue,          \* traffic_logger._log_queue
    dec_in,             \* inputs make_decision is applied to (SpecDecision)
    dec_out,            \* its result (SpecDecision)
    rate_out,           \* the last check_rate_limit call and its result (SpecRate)
    risk_out,           \* the last compute_risk_score call and its result (SpecRisk)
    cfg,                \* the _refresh_loop task: position, locals, backoff state
    loaded,             \* the response body of the last fetch that was loaded
    lookup,             \* the last get_project_by_key call and its result
    health,             \* the last answer of GET /health
    sender,             \* the _traffic_worker task: position, event in flight
    posted,             \* the events POST /internal/traffic was attempted for
    audit               \* the calls of emit_traffic_event made so far (SpecAudit)

gatewayVars == <<req, projects_by_key, redis, minute, worker_started, log_queue>>

decisionVars == <<dec_in, dec_out>>

limiterVars == <<rate_out, risk_out>>

\* What the request handlers leave alone.
refreshVars == <<cfg, loaded, lookup, health>>

senderVars == <<sender, posted, audit>>

nonGatewayVars == <<decisionVars, limiterVars, refreshVars, senderVars>>

vars == <<gatewayVars, nonGatewayVars>>

(* --------------------------- security.py ------------------------------ *)

\* extract_api_key: the dependency that runs before the handler body.
extract_api_key(header) ==
    IF header = <<>> \/ header[1] = ""
    THEN [raised |-> TRUE,  status |-> 401, detail |-> "API key missing",
          value |-> ""]
    ELSE [raised |-> FALSE, status |-> 0,   detail |-> "",
          value |-> header[1]]

\* hash_api_key: SHA-256 hex digest, kept as an injective tag of the key.
hash_api_key(raw_key) == "sha256:" \o raw_key

\* validate_api_key: rejects an empty key and one shorter than 20 characters.
validate_api_key(raw_api_key) ==
    IF raw_api_key = "" \/ Len(raw_api_key) < MIN_KEY_LENGTH
    THEN [raised |-> TRUE,  status |-> 401, detail |-> "Invalid API key",
          value |-> ""]
    ELSE [raised |-> FALSE, status |-> 0,   detail |-> "",
          value |-> hash_api_key(raw_api_key)]

(* ----------------------------- main.py -------------------------------- *)

isdigit(segment) == segment \in {"123", "7"}

\* normalize_path: every all-digit segment becomes ":id".
normalize_path(path) ==
    [i \in 1..Len(path) |-> IF isdigit(path[i]) THEN ":id" ELSE path[i]]

(* ------------------------- config_manager.py -------------------------- *)

ProjectConfig(id, url, hash) ==
    [project_id |-> id, upstream_base_url |-> url, api_key_hash |-> hash]

\* Bodies the control plane answers GET /internal/worker/config with.
ControlResponses ==
    { <<>>,
      << [id |-> "proj_123", upstream_url |-> "http://backend.internal",
          api_keys |-> <<hash_api_key(VALID_KEY)>>],
         [id |-> "proj_short", upstream_url |-> "http://short.internal",
          api_keys |-> <<hash_api_key(SHORT_KEY)>>] >> }

\* The new_map _fetch_and_update builds from a response body.
new_map(projects) ==
    LET hashes == {projects[i].api_keys[1] : i \in 1..Len(projects)}
        last(h) == CHOOSE i \in 1..Len(projects) :
                      /\ projects[i].api_keys[1] = h
                      /\ \A j \in 1..Len(projects) :
                            projects[j].api_keys[1] = h => j <= i
    IN [h \in hashes |->
           ProjectConfig(projects[last(h)].id, projects[last(h)].upstream_url, h)]

\* get_project_by_key: dict.get on the live snapshot; <<>> is None.
get_project_by_key(snapshot, api_key_hash) ==
    IF api_key_hash \in DOMAIN snapshot
    THEN <<snapshot[api_key_hash]>>
    ELSE <<>>

(* --------------------------- redis_client.py -------------------------- *)

\* The KV store as one value: integer keys, set keys, and the TTL (seconds)
\* of the keys that carry one.
Redis(ints, sets, ttl) == [ints |-> ints, sets |-> sets, ttl |-> ttl]

\* Calls to the KV that can raise (connection lost, timeout), in call order.
KvOps == {"rate_incr", "rate_expire", "velocity_incr", "velocity_expire",
          "sadd", "drift_expire", "scard"}
\* The call of one request that raises, or "none".
KvFaults == {"none"} \cup KvOps

redis_get(rs, key) == IF key \in DOMAIN rs.ints THEN rs.ints[key] ELSE 0

\* INCR: creates the key at 1, otherwise adds one.
redis_incr(rs, key) ==
    [rs EXCEPT !.ints = (key :> (redis_get(rs, key) + 1)) @@ rs.ints]

\* EXPIRE: an existing key gets a TTL.
redis_expire(rs, key, seconds) ==
    IF key \in DOMAIN rs.ints \/ key \in DOMAIN rs.sets
    THEN [rs EXCEPT !.ttl = (key :> seconds) @@ rs.ttl]
    ELSE rs

redis_smembers(rs, key) == IF key \in DOMAIN rs.sets THEN rs.sets[key] ELSE {}

\* SADD
redis_sadd(rs, key, member) ==
    [rs EXCEPT !.sets = (key :> (redis_smembers(rs, key) \cup {member})) @@ rs.sets]

\* SCARD
redis_scard(rs, key) == Cardinality(redis_smembers(rs, key))

(* ----------------------------- rate_limit.py -------------------------- *)

\* The words classify_endpoint looks for that occur in a path segment.
KeywordsIn(segment) ==
    CASE segment = "auth"   -> {"auth"}
      [] segment = "login"  -> {"login"}
      [] segment = "otp"    -> {"otp"}
      [] segment = "search" -> {"search"}
      [] segment = "list"   -> {"list"}
      [] OTHER              -> {}

contains(endpoint, word) ==
    \E i \in 1..Len(endpoint) : word \in KeywordsIn(endpoint[i])

classify_endpoint(endpoint) ==
    IF contains(endpoint, "auth") \/ contains(endpoint, "login")
          \/ contains(endpoint, "otp")
    THEN "HIGH"
    ELSE IF contains(endpoint, "search") \/ contains(endpoint, "list")
    THEN "LOW"
    ELSE DEFAULT_PROFILE

rate_limit_key(api_key_hash, ip_address, endpoint, now_minute) ==
    <<"rate_limit", api_key_hash, ip_address, endpoint, now_minute>>

Max(a, b) == IF a >= b THEN a ELSE b
Min(a, b) == IF a <= b THEN a ELSE b

\* check_rate_limit that already blocks the call that reaches rpm + burst.
check_rate_limit_blocks_at_limit(rs, api_key_hash, ip_address, endpoint, now_minute, fault) ==
    LET limits        == ENDPOINT_LIMITS[classify_endpoint(endpoint)]
        key           == rate_limit_key(api_key_hash, ip_address, endpoint, now_minute)
        rs1           == redis_incr(rs, key)
        current_count == redis_get(rs1, key)
        rs2           == IF current_count = 1 THEN redis_expire(rs1, key, 60) ELSE rs1
    IN IF fault = "rate_incr"
       THEN [raised |-> TRUE, count |-> 0, allowed |-> FALSE, remaining |-> 0, rs |-> rs]
       ELSE IF fault = "rate_expire" /\ current_count = 1
       THEN [raised |-> TRUE, count |-> current_count, allowed |-> FALSE,
             remaining |-> 0, rs |-> rs1]
       ELSE IF current_count >= limits.rpm + limits.burst
       THEN [raised |-> FALSE, count |-> current_count, allowed |-> FALSE,
             remaining |-> 0, rs |-> rs2]
       ELSE [raised |-> FALSE, count |-> current_count, allowed |-> TRUE,
             remaining |-> Max(limits.rpm - current_count, 0), rs |-> rs2]

\* check_rate_limit: INCR, EXPIRE on the first increment, then the verdict.
\* A fault is the KV call that raises; the exception leaves the function.
check_rate_limit(rs, api_key_hash, ip_address, endpoint, now_minute, fault) ==
    LET limits        == ENDPOINT_LIMITS[classify_endpoint(endpoint)]
        rpm           == limits.rpm
        burst         == limits.burst
        key           == rate_limit_key(api_key_hash, ip_address, endpoint, now_minute)
        rs1           == redis_incr(rs, key)
        current_count == redis_get(rs1, key)
        rs2           == IF current_count = 1 THEN redis_expire(rs1, key, 60) ELSE rs1
    IN IF fault = "rate_incr"
       THEN [raised |-> TRUE, count |-> 0, allowed |-> FALSE, remaining |-> 0, rs |-> rs]
       ELSE IF fault = "rate_expire" /\ current_count = 1
       THEN [raised |-> TRUE, count |-> current_count, allowed |-> FALSE,
             remaining |-> 0, rs |-> rs1]
       ELSE IF current_count > rpm + burst
       THEN [raised |-> FALSE, count |-> current_count, allowed |-> FALSE,
             remaining |-> 0, rs |-> rs2]
       ELSE [raised |-> FALSE, count |-> current_count, allowed |-> TRUE,
             remaining |-> Max(rpm - current_count, 0), rs |-> rs2]

(* -------------------------------- ml.py ------------------------------- *)

velocity_key(api_key_hash, ip_address, endpoint) ==
    <<"ml:velocity", api_key_hash, ip_address, endpoint>>

drift_key(api_key_hash, ip_address) ==
    <<"ml:endpoints", api_key_hash, ip_address>>

\* (velocity, min(endpoint_count, 5)) at which the exact weighted sum ends in
\* half a hundredth and the float sum rounds up under round(x, 2).
TieRoundsUp ==
    {<<3, 1>>, <<3, 2>>, <<3, 3>>, <<3, 4>>, <<3, 5>>,
     <<9, 1>>, <<9, 2>>, <<15, 4>>}

\* The weighted sum cut off after two decimals instead of rounded.
risk_hundredths_truncated(velocity, endpoint_count) ==
    LET velocity_part == IF velocity >= 30 THEN 240 ELSE 8 * velocity
        burst_part    == IF velocity > 20 THEN 180 ELSE 9 * velocity
        drift_part    == IF endpoint_count >= 5 THEN 180 ELSE 36 * endpoint_count
    IN (velocity_part + burst_part + drift_part) \div 6

\* round(0.4*velocity_score + 0.3*burst_score + 0.3*drift_score, 2), in
\* hundredths; the weighted sum is kept exactly, in six-hundredths.
risk_hundredths(velocity, endpoint_count) ==
    LET velocity_part == IF velocity >= 30 THEN 240 ELSE 8 * velocity
        burst_part    == IF velocity > 20 THEN 180 ELSE 9 * velocity
        drift_part    == IF endpoint_count >= 5 THEN 180 ELSE 36 * endpoint_count
        n             == velocity_part + burst_part + drift_part
        up            == \/ n % 6 > 3
                         \/ /\ n % 6 = 3
                            /\ <<velocity, Min(endpoint_count, 5)>> \in TieRoundsUp
    IN (n \div 6) + (IF up THEN 1 ELSE 0)

\* compute_risk_score: velocity INCR (+EXPIRE on the first), SADD, EXPIRE,
\* SCARD, then the weighted sum.
compute_risk_score(rs, api_key_hash, ip_address, endpoint, fault) ==
    LET vkey     == velocity_key(api_key_hash, ip_address, endpoint)
        dkey     == drift_key(api_key_hash, ip_address)
        rs1      == redis_incr(rs, vkey)
        velocity == redis_get(rs1, vkey)
        rs2      == IF velocity = 1 THEN redis_expire(rs1, vkey, WINDOW_SECONDS) ELSE rs1
        rs3      == redis_sadd(rs2, dkey, endpoint)
        rs4      == redis_expire(rs3, dkey, WINDOW_SECONDS)
        endpoint_count == redis_scard(rs4, dkey)
    IN IF fault = "velocity_incr"
       THEN [raised |-> TRUE, velocity |-> 0, endpoint_count |-> 0,
             risk_score |-> 0, rs |-> rs]
       ELSE IF fault = "velocity_expire" /\ velocity = 1
       THEN [raised |-> TRUE, velocity |-> 0, endpoint_count |-> 0,
             risk_score |-> 0, rs |-> rs1]
       ELSE IF fault = "sadd"
       THEN [raised |-> TRUE, velocity |-> 0, endpoint_count |-> 0,
             risk_score |-> 0, rs |-> rs2]
       ELSE IF fault = "drift_expire"
       THEN [raised |-> TRUE, velocity |-> 0, endpoint_count |-> 0,
             risk_score |-> 0, rs |-> rs3]
       ELSE IF fault = "scard"
       THEN [raised |-> TRUE, velocity |-> 0, endpoint_count |-> 0,
             risk_score |-> 0, rs |-> rs4]
       ELSE [raised |-> FALSE, velocity |-> velocity,
             endpoint_count |-> endpoint_count,
             risk_score |-> risk_hundredths(velocity, endpoint_count),
             rs |-> rs4]

(* ----------------------------- decision.py ---------------------------- *)

Decisions == {"ALLOW", "THROTTLE", "BLOCK"}

\* make_decision with its checks in another order: risk before the rate limit.
make_decision_risk_first(rate_limit_allowed, remaining_requests, ml_risk_score) ==
    IF ml_risk_score >= 90
    THEN [decision |-> "BLOCK", reason |-> "Confirmed abuse: high risk behavior"]
    ELSE IF ml_risk_score >= 60
    THEN [decision |-> "THROTTLE", reason |-> "Abnormal usage pattern detected"]
    ELSE IF ~rate_limit_allowed
    THEN [decision |-> "BLOCK", reason |-> "Confirmed abuse: rate limit exceeded"]
    ELSE IF remaining_requests <= 5
    THEN [decision |-> "THROTTLE", reason |-> "Approaching rate limit"]
    ELSE [decision |-> "ALLOW", reason |-> "Usage within expected behavior"]

\* make_decision: the first check that applies decides.
make_decision(rate_limit_allowed, remaining_requests, ml_risk_score) ==
    IF ~rate_limit_allowed
    THEN [decision |-> "BLOCK", reason |-> "Confirmed abuse: rate limit exceeded"]
    ELSE IF ml_risk_score >= 90
    THEN [decision |-> "BLOCK", reason |-> "Confirmed abuse: high risk behavior"]
    ELSE IF ml_risk_score >= 60
    THEN [decision |-> "THROTTLE", reason |-> "Abnormal usage pattern detected"]
    ELSE IF remaining_requests <= 5
    THEN [decision |-> "THROTTLE", reason |-> "Approaching rate limit"]
    ELSE [decision |-> "ALLOW", reason |-> "Usage within expected behavior"]

(* -------------------------- traffic_logger.py ------------------------- *)

\* emit_traffic_event without the bound: the event is always put.
emit_traffic_event_unbounded(started, queue, event) ==
    [ret   |-> None,
     queue |-> IF ~started THEN queue ELSE Append(queue, event)]

\* emit_traffic_event that makes room by discarding the oldest event.
emit_traffic_event_drops_oldest(started, queue, event) ==
    [ret   |-> None,
     queue |-> IF ~started
               THEN queue
               ELSE IF Len(queue) >= QUEUE_MAX_SIZE
               THEN Append(Tail(queue), event)
               ELSE Append(queue, event)]

\* emit_traffic_event: a plain function.  Returns None; the queue it leaves.
emit_traffic_event(started, queue, event) ==
    [ret   |-> None,
     queue |-> IF ~started
               THEN queue
               ELSE IF Len(queue) >= QUEUE_MAX_SIZE
               THEN queue
               ELSE Append(queue, event)]

\* The integer counters among the module's state (_log_queue, _worker_task,
\* _worker_started, _http_client): there is none.
traffic_logger_counters == <<>>

\* Queue.get that hands out the newest event.
queue_get_newest(queue) ==
    [item |-> queue[Len(queue)], rest |-> SubSeq(queue, 1, Len(queue) - 1)]

\* asyncio.Queue.get on a non-empty queue: the oldest event.
queue_get(queue) == [item |-> Head(queue), rest |-> Tail(queue)]

(* ------------------------------ proxy.py ------------------------------ *)

\* Header sets are kept as the sets of their names; values travel untouched.
HOP_BY_HOP_HEADERS ==
    {"connection", "keep-alive", "proxy-authenticate", "proxy-authorization",
     "te", "trailers", "transfer-encoding", "upgrade", "host"}

\* The headers of a request, and those an upstream answers with.
RequestHeaders == {"host", "Connection", "TE", "x-api-key", "accept"}
UpstreamResponseHeaders ==
    {"content-type", "Transfer-Encoding", "Keep-Alive", "x-upstream"}

\* str.lower on the header names in use.
lower(name) ==
    CASE name = "Connection"        -> "connection"
      [] name = "TE"                -> "te"
      [] name = "Transfer-Encoding" -> "transfer-encoding"
      [] name = "Keep-Alive"        -> "keep-alive"
      [] OTHER                      -> name

_filter_headers(headers) == {k \in headers : lower(k) \notin HOP_BY_HOP_HEADERS}

CORS_HEADERS ==
    {"Access-Control-Allow-Origin", "Access-Control-Allow-Methods",
     "Access-Control-Allow-Headers", "Access-Control-Max-Age"}

\* response.headers.setdefault(k, v) for every CORS header.
with_cors_defaults(headers) == headers \cup CORS_HEADERS

\* The headers of an answer the framework builds from an exception.
ErrorResponseHeaders == {"content-type", "content-length"}

(* ----------------------------- main.gateway --------------------------- *)

\* A request that has not arrived yet, and the shape of every request's
\* locals.  events: the events handed to emit_traffic_event, in order.
IdleRequest ==
    [pc |-> "idle", handler |-> "", method |-> "", header |-> <<>>,
     path |-> <<>>, api_key_hash |-> "", project |-> <<>>,
     scored |-> FALSE, kv_error |-> FALSE,
     rate_count |-> 0, rate_allowed |-> FALSE, remaining |-> 0, risk_score |-> 0,
     decision |-> None, reason |-> None,
     slept |-> FALSE, forwards |-> 0, upstream |-> "none", upstream_status |-> 0,
     events |-> <<>>, outcome |-> "", status |-> 0, detail |-> "",
     cors |-> FALSE, sent_headers |-> {}, response_headers |-> {}]

\* RequestContext(...).dict(): the audit event (timestamp, user agent and
\* latency left out).
RequestContext(project_id, api_key_hash, method, path, endpoint, risk_score, decision, reason, status_code) ==
    [project_id |-> project_id, api_key_hash |-> api_key_hash,
     method |-> method, path |-> path, endpoint |-> endpoint,
     ip |-> CLIENT_IP, risk_score |-> risk_score, decision |-> decision,
     reason |-> reason, status_code |-> status_code]

\* asyncio.create_task(coro): raises TypeError unless given a coroutine.
create_task(coro) ==
    IF coro = None
    THEN [raised |-> TRUE,  error |-> "TypeError"]
    ELSE [raised |-> FALSE, error |-> ""]

\* The hand-over of a handler that answers 503 once an audit POST has failed.
EmitThenRespondWatchingSender(rec, ctx, status, detail, outcome, cors) ==
    LET emitted == emit_traffic_event(worker_started, log_queue, ctx)
        task    == create_task(emitted.ret)
        down    == sender.last = "failed"
    IN [rec   |-> [rec EXCEPT
                     !.pc      = "done",
                     !.events  = Append(@, ctx),
                     !.outcome = outcome,
                     !.status  = IF down THEN 503
                                 ELSE IF task.raised THEN 500 ELSE status,
                     !.detail  = IF task.raised THEN "Internal Server Error"
                                 ELSE detail,
                     !.cors    = IF task.raised THEN FALSE ELSE cors,
                     !.response_headers = ErrorResponseHeaders],
        queue |-> emitted.queue]

\* logger.info(ctx.json()); asyncio.create_task(emit_traffic_event(ctx.dict()))
\* and then the handler's raise or return.  The argument is evaluated first:
\* emit_traffic_event runs, and what it returns goes to create_task.  An
\* exception create_task raises leaves the handler and is answered 500.
EmitThenRespond(rec, ctx, status, detail, outcome, cors) ==
    LET emitted == emit_traffic_event(worker_started, log_queue, ctx)
        task    == create_task(emitted.ret)
    IN [rec   |-> [rec EXCEPT
                     !.pc      = "done",
                     !.events  = Append(@, ctx),
                     !.outcome = outcome,
                     !.status  = IF task.raised THEN 500 ELSE status,
                     !.detail  = IF task.raised THEN "Internal Server Error"
                                 ELSE detail,
                     !.cors    = IF task.raised THEN FALSE ELSE cors,
                     !.response_headers = ErrorResponseHeaders],
        queue |-> emitted.queue]

\* "if decision == Decision.THROTTLE" comparing against a value the enum
\* does not have, so that no request ever sleeps.
is_throttle_wrong_value(decision) == decision = "throttle"

\* if decision == Decision.THROTTLE: await asyncio.sleep(0.3)
is_throttle(decision) == decision = "THROTTLE"

\* "if decision == Decision.BLOCK" testing for the wrong member.
is_block_wrong_member(decision) == decision = "THROTTLE"

\* if decision == Decision.BLOCK: emit, raise 429
is_block(decision) == decision = "BLOCK"

\* The handler from the BLOCK test on: reject with 429, or call
\* forward_request and wait for the upstream.
BlockOrForward(rec) ==
    IF is_block(rec.decision)
    THEN EmitThenRespond(
             rec,
             RequestContext(rec.project[1].project_id, rec.api_key_hash,
                            rec.method, rec.path, normalize_path(rec.path),
                            rec.risk_score, rec.decision, rec.reason, 429),
             429,
             IF rec.reason = None THEN "Request blocked" ELSE rec.reason,
             "blocked", FALSE)
    ELSE [rec   |-> [rec EXCEPT !.pc = "forwarding", !.forwards = @ + 1,
                                !.sent_headers = _filter_headers(RequestHeaders)],
          queue |-> log_queue]

\* A handler that counts the request against the rate limit before it looks
\* the key hash up in the snapshot.
GatewayEnterCountingFirst(r, method, header, path, fault) ==
    /\ req[r].pc = "idle"
    /\ \A q \in Reqs : q < r => req[q].pc # "idle"
    /\ method \in GatewayMethods
    /\ LET base == [IdleRequest EXCEPT !.handler = "gateway", !.method = method,
                                       !.header = header, !.path = path]
           normalized_path == normalize_path(path)
           raw_api_key     == extract_api_key(header)
           validated       == validate_api_key(raw_api_key.value)
           api_key_hash    == validated.value
           project_config  == get_project_by_key(projects_by_key, api_key_hash)
           identified      == [base EXCEPT !.api_key_hash = api_key_hash,
                                           !.project = project_config]
           rate            == check_rate_limit(redis, api_key_hash, CLIENT_IP,
                                               normalized_path, minute, fault)
           ml_result       == compute_risk_score(rate.rs, api_key_hash, CLIENT_IP,
                                                 normalized_path, fault)
           decision_result == make_decision(rate.allowed, rate.remaining,
                                            ml_result.risk_score)
           decided         == [identified EXCEPT
                                 !.scored       = TRUE,
                                 !.rate_count   = rate.count,
                                 !.rate_allowed = rate.allowed,
                                 !.remaining    = rate.remaining,
                                 !.risk_score   = ml_result.risk_score,
                                 !.decision     = decision_result.decision,
                                 !.reason       = decision_result.reason]
           invalid == EmitThenRespond(
                          base,
                          RequestContext("unknown", "invalid", method, path,
                                         normalized_path, 0, "BLOCK",
                                         "Missing or invalid API key", 401),
                          401, "Invalid API key", "invalid_key", FALSE)
           unknown == EmitThenRespond(
                          identified,
                          RequestContext("unknown", api_key_hash, method, path,
                                         normalized_path, 0, "BLOCK",
                                         "Unknown project", 401),
                          401, "Invalid API key", "unknown_project", FALSE)
           onward  == BlockOrForward(decided)
       IN IF raw_api_key.raised
          THEN \* the dependency raised: the handler body never runs
               /\ req' = [req EXCEPT ![r] =
                            [base EXCEPT !.pc = "done", !.outcome = "missing_key",
                                         !.status = raw_api_key.status,
                                         !.detail = raw_api_key.detail,
                                         !.response_headers = ErrorResponseHeaders]]
               /\ UNCHANGED <<redis, log_queue>>
          ELSE IF validated.raised
          THEN /\ req' = [req EXCEPT ![r] = invalid.rec]
               /\ log_queue' = invalid.queue
               /\ UNCHANGED redis
          ELSE IF project_config = <<>>
          THEN /\ req' = [req EXCEPT ![r] = unknown.rec]
               /\ log_queue' = unknown.queue
               /\ redis' = rate.rs
          ELSE IF rate.raised \/ ml_result.raised
          THEN \* a redis exception is caught nowhere: answered 500
               /\ req' = [req EXCEPT ![r] =
                            [identified EXCEPT
                               !.pc = "done", !.kv_error = TRUE,
                               !.outcome = "kv_error", !.status = 500,
                               !.detail = "Internal Server Error",
                               !.response_headers = ErrorResponseHeaders]]
               /\ redis' = IF rate.raised THEN rate.rs ELSE ml_result.rs
               /\ UNCHANGED log_queue
          ELSE IF is_throttle(decided.decision)
          THEN /\ req' = [req EXCEPT ![r] = [decided EXCEPT !.pc = "sleeping"]]
               /\ redis' = ml_result.rs
               /\ UNCHANGED log_queue
          ELSE /\ req' = [req EXCEPT ![r] = onward.rec]
               /\ log_queue' = onward.queue
               /\ redis' = ml_result.rs
    /\ UNCHANGED <<projects_by_key, minute, worker_started, nonGatewayVars>>

\* A request arrives at the gateway route: the extract_api_key dependency,
\* then the handler body up to its first await (the throttle sleep or the
\* upstream send) or to its end.
GatewayEnter(r, method, header, path, fault) ==
    /\ req[r].pc = "idle"
    /\ \A q \in Reqs : q < r => req[q].pc # "idle"
    /\ method \in GatewayMethods
    /\ LET base == [IdleRequest EXCEPT !.handler = "gateway", !.method = method,
                                       !.header = header, !.path = path]
           normalized_path == normalize_path(path)
           raw_api_key     == extract_api_key(header)
           validated       == validate_api_key(raw_api_key.value)
           api_key_hash    == validated.value
           project_config  == get_project_by_key(projects_by_key, api_key_hash)
           identified      == [base EXCEPT !.api_key_hash = api_key_hash,
                                           !.project = project_config]
           rate            == check_rate_limit(redis, api_key_hash, CLIENT_IP,
                                               normalized_path, minute, fault)
           ml_result       == compute_risk_score(rate.rs, api_key_hash, CLIENT_IP,
                                                 normalized_path, fault)
           decision_result == make_decision(rate.allowed, rate.remaining,
                                            ml_result.risk_score)
           decided         == [identified EXCEPT
                                 !.scored       = TRUE,
                                 !.rate_count   = rate.count,
                                 !.rate_allowed = rate.allowed,
                                 !.remaining    = rate.remaining,
                                 !.risk_score   = ml_result.risk_score,
                                 !.decision     = decision_result.decision,
                                 !.reason       = decision_result.reason]
           invalid == EmitThenRespond(
                          base,
                          RequestContext("unknown", "invalid", method, path,
                                         normalized_path, 0, "BLOCK",
                                         "Missing or invalid API key", 401),
                          401, "Invalid API key", "invalid_key", FALSE)
           unknown == EmitThenRespond(
                          identified,
                          RequestContext("unknown", api_key_hash, method, path,
                                         normalized_path, 0, "BLOCK",
                                         "Unknown project", 401),
                          401, "Invalid API key", "unknown_project", FALSE)
           onward  == BlockOrForward(decided)
       IN IF raw_api_key.raised
          THEN \* the dependency raised: the handler body never runs
               /\ req' = [req EXCEPT ![r] =
                            [base EXCEPT !.pc = "done", !.outcome = "missing_key",
                                         !.status = raw_api_key.status,
                                         !.detail = raw_api_key.detail,
                                         !.response_headers = ErrorResponseHeaders]]
               /\ UNCHANGED <<redis, log_queue>>
          ELSE IF validated.raised
          THEN /\ req' = [req EXCEPT ![r] = invalid.rec]
               /\ log_queue' = invalid.queue
               /\ UNCHANGED redis
          ELSE IF project_config = <<>>
          THEN /\ req' = [req EXCEPT ![r] = unknown.rec]
               /\ log_queue' = unknown.queue
               /\ UNCHANGED redis
          ELSE IF rate.raised \/ ml_result.raised
          THEN \* a redis exception is caught nowhere: answered 500
               /\ req' = [req EXCEPT ![r] =
                            [identified EXCEPT
                               !.pc = "done", !.kv_error = TRUE,
                               !.outcome = "kv_error", !.status = 500,
                               !.detail = "Internal Server Error",
                               !.response_headers = ErrorResponseHeaders]]
               /\ redis' = IF rate.raised THEN rate.rs ELSE ml_result.rs
               /\ UNCHANGED log_queue
          ELSE IF is_throttle(decided.decision)
          THEN /\ req' = [req EXCEPT ![r] = [decided EXCEPT !.pc = "sleeping"]]
               /\ redis' = ml_result.rs
               /\ UNCHANGED log_queue
          ELSE /\ req' = [req EXCEPT ![r] = onward.rec]
               /\ log_queue' = onward.queue
               /\ redis' = ml_result.rs
    /\ UNCHANGED <<projects_by_key, minute, worker_started, nonGatewayVars>>

\* asyncio.sleep(0.3) returns: the handler goes on to the BLOCK test.
ThrottleWake(r) ==
    /\ req[r].pc = "sleeping"
    /\ LET onward == BlockOrForward([req[r] EXCEPT !.slept = TRUE])
       IN /\ req' = [req EXCEPT ![r] = onward.rec]
          /\ log_queue' = onward.queue
    /\ UNCHANGED <<projects_by_key, redis, minute, worker_started, nonGatewayVars>>

\* A handler whose success event carries the decision that was made.
UpstreamRespondsRecordingDecision(r, upstream_status) ==
    /\ req[r].pc = "forwarding"
    /\ LET rec == [req[r] EXCEPT !.upstream = "responded",
                                 !.upstream_status = upstream_status]
           out == EmitThenRespond(
                      rec,
                      RequestContext(rec.project[1].project_id, rec.api_key_hash,
                                     rec.method, rec.path, normalize_path(rec.path),
                                     rec.risk_score, rec.decision, None, upstream_status),
                      upstream_status, "", "proxied", TRUE)
           \* lines 306-309 run only if the hand-over did not raise
           delivered == IF out.rec.cors
                        THEN with_cors_defaults(
                                 _filter_headers(UpstreamResponseHeaders))
                        ELSE out.rec.response_headers
       IN /\ req' = [req EXCEPT ![r] =
                        [out.rec EXCEPT !.response_headers = delivered]]
          /\ log_queue' = out.queue
    /\ UNCHANGED <<projects_by_key, redis, minute, worker_started, nonGatewayVars>>

\* forward_request returns the upstream's response: the success event, the
\* CORS defaults, return response.
UpstreamResponds(r, upstream_status) ==
    /\ req[r].pc = "forwarding"
    /\ LET rec == [req[r] EXCEPT !.upstream = "responded",
                                 !.upstream_status = upstream_status]
           out == EmitThenRespond(
                      rec,
                      RequestContext(rec.project[1].project_id, rec.api_key_hash,
                                     rec.method, rec.path, normalize_path(rec.path),
                                     rec.risk_score, "ALLOW", None, upstream_status),
                      upstream_status, "", "proxied", TRUE)
           \* lines 306-309 run only if the hand-over did not raise
           delivered == IF out.rec.cors
                        THEN with_cors_defaults(
                                 _filter_headers(UpstreamResponseHeaders))
                        ELSE out.rec.response_headers
       IN /\ req' = [req EXCEPT ![r] =
                        [out.rec EXCEPT !.response_headers = delivered]]
          /\ log_queue' = out.queue
    /\ UNCHANGED <<projects_by_key, redis, minute, worker_started, nonGatewayVars>>

\* forward_request turns httpx.RequestError into HTTPException(502); the
\* handler's except branch emits the "Upstream error" event and re-raises.
UpstreamUnreachable(r) ==
    /\ req[r].pc = "forwarding"
    /\ LET rec == [req[r] EXCEPT !.upstream = "unreachable"]
           out == EmitThenRespond(
                      rec,
                      RequestContext(rec.project[1].project_id, rec.api_key_hash,
                                     rec.method, rec.path, normalize_path(rec.path),
                                     rec.risk_score, "ALLOW", "Upstream error", 502),
                      502, "Upstream service unreachable", "upstream_error", FALSE)
       IN /\ req' = [req EXCEPT ![r] = out.rec]
          /\ log_queue' = out.queue
    /\ UNCHANGED <<projects_by_key, redis, minute, worker_started, nonGatewayVars>>

\* preflight_handler: every OPTIONS request is answered 200 with the
\* worker's CORS headers.
Preflight(r, path) ==
    /\ req[r].pc = "idle"
    /\ \A q \in Reqs : q < r => req[q].pc # "idle"
    /\ req' = [req EXCEPT ![r] =
                 [IdleRequest EXCEPT !.pc = "done", !.handler = "preflight_handler",
                                     !.method = "OPTIONS", !.path = path,
                                     !.outcome = "preflight", !.status = 200,
                                     !.cors = TRUE,
                                     !.response_headers = CORS_HEADERS]]
    /\ UNCHANGED <<projects_by_key, redis, minute, worker_started, log_queue,
                   nonGatewayVars>>

\* _fetch_and_update with a fetch that succeeds: the new map replaces the
\* live one.
FetchAndUpdate(projects) ==
    /\ projects_by_key' = new_map(projects)
    /\ UNCHANGED <<req, redis, minute, worker_started, log_queue, nonGatewayVars>>

\* A start_traffic_logger that creates a task on every call.
start_traffic_logger_unguarded(started, snd) ==
    [started |-> TRUE,
     sender  |-> [snd EXCEPT !.pc = "waiting", !.tasks = @ + 1]]

\* start_traffic_logger, with CONTROL_API_BASE_URL set and a running loop:
\* nothing once _worker_started is set, else the task is created and the
\* flag set.
start_traffic_logger(started, snd) ==
    IF started
    THEN [started |-> started, sender |-> snd]
    ELSE [started |-> TRUE,
          sender  |-> [snd EXCEPT !.pc = "waiting", !.tasks = @ + 1]]

\* The first call of start_traffic_logger.
StartTrafficLogger ==
    /\ ~worker_started
    /\ worker_started' = start_traffic_logger(worker_started, sender).started
    /\ sender' = start_traffic_logger(worker_started, sender).sender
    /\ UNCHANGED <<req, projects_by_key, redis, minute, log_queue, decisionVars,
                   limiterVars, refreshVars, posted, audit>>

(* ---------------------------- initial states -------------------------- *)

Endpoints == {normalize_path(p) : p \in Paths}

\* Other endpoints the same key and address asked for within the window.
OtherEndpoints == {<<"other", "a">>, <<"other", "b">>, <<"other", "c">>,
                   <<"other", "d">>}

\* What earlier traffic of VALID_KEY left in the KV: <<count of the current
\* minute's rate counters, velocity counters, other endpoints visited>>.
KvScenarios ==
    { <<0, 0, {}>>, <<54, 0, {}>>, <<80, 0, {}>>,
      <<0, 24, {}>>, <<0, 24, OtherEndpoints>> }

KvAfter(scenario, now_minute) ==
    LET h      == hash_api_key(VALID_KEY)
        rkeys  == IF scenario[1] > 0
                  THEN {rate_limit_key(h, CLIENT_IP, e, now_minute) : e \in Endpoints}
                  ELSE {}
        vkeys  == IF scenario[2] > 0
                  THEN {velocity_key(h, CLIENT_IP, e) : e \in Endpoints}
                  ELSE {}
        seen   == (IF rkeys \cup vkeys = {} THEN {} ELSE Endpoints) \cup scenario[3]
        dkeys  == IF seen = {} THEN {} ELSE {drift_key(h, CLIENT_IP)}
    IN Redis([k \in rkeys \cup vkeys |->
                 IF k \in rkeys THEN scenario[1] ELSE scenario[2]],
             [k \in dkeys |-> seen],
             [k \in rkeys \cup vkeys \cup dkeys |-> WINDOW_SECONDS])

NoDecisionInput == [rate_limit_allowed |-> TRUE, remaining_requests |-> 0,
                    ml_risk_score |-> 0]
NoDecision == [decision |-> None, reason |-> None]

\* The placeholder where no event is held.
NoEvent == [seq |-> 0]

\* No _traffic_worker task exists.
NoSender ==
    [pc |-> "off", event |-> NoEvent, last |-> "none", tasks |-> 0,
     closed |-> FALSE, shutdown |-> FALSE]

NoAudit == [base |-> 0, emits |-> 0, event |-> NoEvent, ret |-> "none", starts |-> 0]

SenderIdle == sender = NoSender /\ posted = <<>> /\ audit = NoAudit

\* The refresher before start_background_refresh: ConfigManager.__init__.
IdleRefresher ==
    [pc |-> "off", phase |-> "initial", data |-> <<>>, new_map |-> <<>>, idx |-> 1,
     consecutive_failures |-> 0, current_backoff |-> 10,
     startup |-> "none", last_fetch |-> "none", ever_loaded |-> FALSE,
     slept |-> 0, tasks |-> 0]

NoLookup == [made |-> FALSE, api_key_hash |-> "", result |-> <<>>, loaded |-> <<>>]

NoHealth == [asked |-> FALSE, status_code |-> 0, status |-> ""]

RefresherIdle ==
    cfg = IdleRefresher /\ loaded = <<>> /\ lookup = NoLookup /\ health = NoHealth

NoRateResult == [calls |-> 0, endpoint |-> <<>>, count |-> 0, raised |-> FALSE,
                 allowed |-> FALSE, remaining |-> 0]
NoRiskResult == [calls |-> 0, endpoint |-> <<>>, velocity |-> 0,
                 endpoint_count |-> 0, raised |-> FALSE, risk_score |-> 0]

\* No limiter or scorer call has been made.
LimiterIdle == rate_out = NoRateResult /\ risk_out = NoRiskResult

Init ==
    /\ req = [r \in Reqs |-> IdleRequest]
    /\ projects_by_key = <<>>
    /\ minute = 0
    /\ \E scenario \in KvScenarios : redis = KvAfter(scenario, minute)
    /\ worker_started = FALSE
    /\ log_queue = <<>>
    /\ dec_in = NoDecisionInput
    /\ dec_out = NoDecision
    /\ LimiterIdle
    /\ RefresherIdle
    /\ SenderIdle

Next ==
    \/ \E r \in Reqs, method \in Methods, header \in ApiKeyHeaders,
          path \in Paths, fault \in KvFaults :
          GatewayEnter(r, method, header, path, fault)
    \/ \E r \in Reqs : ThrottleWake(r)
    \/ \E r \in Reqs, upstream_status \in UpstreamStatuses :
          UpstreamResponds(r, upstream_status)
    \/ \E r \in Reqs : UpstreamUnreachable(r)
    \/ \E r \in Reqs, path \in Paths : Preflight(r, path)
    \/ \E projects \in ControlResponses : FetchAndUpdate(projects)
    \/ StartTrafficLogger

Spec == Init /\ [][Next]_vars

(* ------------------- make_decision over its inputs -------------------- *)

InitDecision ==
    /\ req = [r \in Reqs |-> IdleRequest]
    /\ projects_by_key = <<>>
    /\ minute = 0
    /\ redis = Redis(<<>>, <<>>, <<>>)
    /\ worker_started = FALSE
    /\ log_queue = <<>>
    /\ dec_in \in [rate_limit_allowed : BOOLEAN,
                   remaining_requests : 0..MaxRemaining,
                   ml_risk_score : 0..MaxRisk]
    /\ dec_out = NoDecision
    /\ LimiterIdle
    /\ RefresherIdle
    /\ SenderIdle

Decide ==
    /\ dec_out = NoDecision
    /\ dec_out' = make_decision(dec_in.rate_limit_allowed,
                                dec_in.remaining_requests, dec_in.ml_risk_score)
    /\ UNCHANGED <<gatewayVars, dec_in, limiterVars, refreshVars, senderVars>>

NextDecision == Decide

SpecDecision == InitDecision /\ [][NextDecision]_vars

(* ----------------- check_rate_limit over its counters ----------------- *)

\* Canonical endpoints of the three profiles: MEDIUM, HIGH, LOW.
RateEndpoints == {<<"users", ":id">>, <<"auth", "login">>, <<"search">>}

\* Counts earlier calls of the current minute left in every counter.
RateStartCounts == {0, 8, 14, 58, 78, 298, 348}

RateKeys(now_minute) ==
    {rate_limit_key(hash_api_key(VALID_KEY), CLIENT_IP, e, now_minute) :
        e \in RateEndpoints}

InitRate ==
    /\ req = [r \in Reqs |-> IdleRequest]
    /\ projects_by_key = <<>>
    /\ minute = 0
    /\ \E start \in RateStartCounts :
          redis = IF start = 0
                  THEN Redis(<<>>, <<>>, <<>>)
                  ELSE Redis([k \in RateKeys(minute) |-> start], <<>>,
                             [k \in RateKeys(minute) |-> 60])
    /\ worker_started = FALSE
    /\ log_queue = <<>>
    /\ dec_in = NoDecisionInput
    /\ dec_out = NoDecision
    /\ LimiterIdle
    /\ RefresherIdle
    /\ SenderIdle

\* One call check_rate_limit(key_hash, ip, endpoint); fault is the KV call
\* of it that raises.
CheckRateLimit(endpoint, fault) ==
    LET h      == hash_api_key(VALID_KEY)
        result == check_rate_limit(redis, h, CLIENT_IP, endpoint, minute, fault)
    IN /\ rate_out.calls < MaxRateCalls
       /\ redis' = result.rs
       /\ rate_out' = [calls     |-> rate_out.calls + 1,
                       endpoint  |-> endpoint,
                       count     |-> result.count,
                       raised    |-> result.raised,
                       allowed   |-> result.allowed,
                       remaining |-> result.remaining]
       /\ UNCHANGED <<req, projects_by_key, minute, worker_started, log_queue,
                      decisionVars, risk_out, refreshVars, senderVars>>

NextRate ==
    \E endpoint \in RateEndpoints, fault \in {"none", "rate_incr", "rate_expire"} :
        CheckRateLimit(endpoint, fault)

SpecRate == InitRate /\ [][NextRate]_vars

(* --------------- compute_risk_score over its counters ----------------- *)

ScoredEndpoint == <<"users", ":id">>

\* The i-th other endpoint the same key and address asked for in the window.
DriftEndpoint(i) == [j \in 1..(i + 2) |-> "other"]

\* The velocity counter of ScoredEndpoint stands at velocity, and the drift
\* set holds others more endpoints; a counted endpoint is in the drift set,
\* whose TTL is renewed by every call.
KvScored(velocity, others) ==
    LET h     == hash_api_key(VALID_KEY)
        vkey  == velocity_key(h, CLIENT_IP, ScoredEndpoint)
        dkey  == drift_key(h, CLIENT_IP)
        seen  == (IF velocity > 0 THEN {ScoredEndpoint} ELSE {})
                    \cup {DriftEndpoint(i) : i \in 1..others}
        vkeys == IF velocity > 0 THEN {vkey} ELSE {}
        dkeys == IF seen = {} THEN {} ELSE {dkey}
    IN Redis([k \in vkeys |-> velocity], [k \in dkeys |-> seen],
             [k \in vkeys \cup dkeys |-> WINDOW_SECONDS])

InitRisk ==
    /\ req = [r \in Reqs |-> IdleRequest]
    /\ projects_by_key = <<>>
    /\ minute = 0
    /\ \E velocity \in 0..MaxVelocity, others \in 0..MaxDrift :
          redis = KvScored(velocity, others)
    /\ worker_started = FALSE
    /\ log_queue = <<>>
    /\ dec_in = NoDecisionInput
    /\ dec_out = NoDecision
    /\ LimiterIdle
    /\ RefresherIdle
    /\ SenderIdle

\* One call compute_risk_score(api_key_hash, ip_address, endpoint); fault is
\* the KV call of it that raises.
ComputeRiskScore(endpoint, fault) ==
    LET result == compute_risk_score(redis, hash_api_key(VALID_KEY), CLIENT_IP,
                                     endpoint, fault)
    IN /\ risk_out.calls < MaxRiskCalls
       /\ redis' = result.rs
       /\ risk_out' = [calls          |-> risk_out.calls + 1,
                       endpoint       |-> endpoint,
                       velocity       |-> result.velocity,
                       endpoint_count |-> result.endpoint_count,
                       raised         |-> result.raised,
                       risk_score     |-> result.risk_score]
       /\ UNCHANGED <<req, projects_by_key, minute, worker_started, log_queue,
                      decisionVars, rate_out, refreshVars, senderVars>>

NextRisk ==
    \E fault \in {"none", "velocity_incr", "velocity_expire", "sadd",
                   "drift_expire", "scard"} :
        ComputeRiskScore(ScoredEndpoint, fault)

SpecRisk == InitRisk /\ [][NextRisk]_vars

(* ------------------- the config refresher and lookups ----------------- *)

\* What GET /internal/worker/config ends with: "error" (no connection, a
\* timeout, an error status, a body that is not JSON) or the projects of
\* the body.  The last body has a project without a key.
FetchOutcomes ==
    { "error",
      <<>>,
      << [id |-> "proj_123", upstream_url |-> "http://backend.internal",
          api_keys |-> <<hash_api_key(VALID_KEY)>>],
         [id |-> "proj_short", upstream_url |-> "http://short.internal",
          api_keys |-> <<hash_api_key(SHORT_KEY)>>] >>,
      << [id |-> "proj_456", upstream_url |-> "http://moved.internal",
          api_keys |-> <<hash_api_key(VALID_KEY)>>] >>,
      << [id |-> "proj_123", upstream_url |-> "http://backend.internal",
          api_keys |-> <<hash_api_key(VALID_KEY)>>],
         [id |-> "proj_nokey", upstream_url |-> "http://nokey.internal",
          api_keys |-> <<>>] >> }

LookupHashes == {hash_api_key(VALID_KEY), hash_api_key(SHORT_KEY),
                 hash_api_key(WRONG_KEY)}

\* The wait after one more failed refresh.
next_backoff_uncapped(current_backoff) == current_backoff * 2

next_backoff(current_backoff) == Min(current_backoff * 2, 120)

\* A loop that lets the exception of a fetch end it.
refresh_failed_ends_loop(c) ==
    [c EXCEPT !.pc = "ended", !.last_fetch = "failed"]

\* The except branches of _refresh_loop: the initial fetch only logs, a
\* periodic one counts the failure and lengthens the wait.
refresh_failed(c) ==
    IF c.phase = "initial"
    THEN [c EXCEPT !.pc = "sleeping", !.phase = "loop", !.last_fetch = "failed"]
    ELSE [c EXCEPT !.pc = "sleeping", !.last_fetch = "failed",
                   !.consecutive_failures = @ + 1,
                   !.current_backoff = next_backoff(@)]

\* After _fetch_and_update returned: a periodic refresh resets the counters.
refresh_succeeded(c) ==
    IF c.phase = "initial"
    THEN [c EXCEPT !.pc = "sleeping", !.phase = "loop", !.last_fetch = "loaded",
                   !.ever_loaded = TRUE]
    ELSE [c EXCEPT !.pc = "sleeping", !.last_fetch = "loaded",
                   !.ever_loaded = TRUE,
                   !.consecutive_failures = 0, !.current_backoff = 10]

\* The control plane fails a refresh only while the cap on consecutive
\* failures allows it.
MayFail == cfg.consecutive_failures < MaxFailures

\* The answers of the control plane that make _fetch_and_update raise: no
\* answer at all, or a body with a project that has no key.
Raises(outcome) ==
    \/ outcome = "error"
    \/ /\ outcome # "error"
       /\ \E i \in 1..Len(outcome) : outcome[i].api_keys = <<>>

nonRefreshVars ==
    <<req, redis, minute, worker_started, log_queue, decisionVars, limiterVars,
      senderVars>>

\* start_background_refresh: every call creates one more task, which runs
\* up to the GET of its initial fetch.
start_background_refresh(c) ==
    LET task == create_task("coroutine:_refresh_loop")
    IN IF task.raised
       THEN [c EXCEPT !.startup = "raised"]
       ELSE [c EXCEPT !.startup = "returned", !.pc = "fetching",
                      !.tasks = @ + 1]

\* A startup hook that runs once more while the application is up.
StartBackgroundRefreshTwice ==
    /\ cfg.tasks < 2
    /\ cfg' = start_background_refresh(cfg)
    /\ UNCHANGED <<projects_by_key, loaded, lookup, health, nonRefreshVars>>

\* The startup hook of the application, run once when it comes up, calls
\* start_background_refresh.
StartBackgroundRefresh ==
    /\ cfg.pc = "off"
    /\ cfg' = start_background_refresh(cfg)
    /\ UNCHANGED <<projects_by_key, loaded, lookup, health, nonRefreshVars>>

\* The GET of _fetch_and_update ends: an error leaves the function, a body
\* starts the loop over its projects with an empty new_map.
FetchRespondsLosingSnapshot(outcome) ==
    /\ cfg.pc = "fetching"
    /\ Raises(outcome) => MayFail
    /\ IF outcome = "error"
       THEN /\ MayFail
            /\ cfg' = refresh_failed(cfg)
            /\ projects_by_key' = <<>>
       ELSE /\ cfg' = [cfg EXCEPT !.pc = "building", !.data = outcome,
                                  !.new_map = <<>>, !.idx = 1]
            /\ UNCHANGED projects_by_key
    /\ UNCHANGED <<loaded, lookup, health, nonRefreshVars>>

FetchResponds(outcome) ==
    /\ cfg.pc = "fetching"
    /\ Raises(outcome) => MayFail
    /\ IF outcome = "error"
       THEN /\ MayFail
            /\ cfg' = refresh_failed(cfg)
       ELSE cfg' = [cfg EXCEPT !.pc = "building", !.data = outcome,
                               !.new_map = <<>>, !.idx = 1]
    /\ UNCHANGED <<projects_by_key, loaded, lookup, health, nonRefreshVars>>

\* One pass of the loop over the projects that writes the entry into the
\* live map as well.
BuildEntryInPlace ==
    /\ cfg.pc = "building"
    /\ cfg.idx <= Len(cfg.data)
    /\ LET project == cfg.data[cfg.idx]
       IN IF project.api_keys = <<>>
          THEN /\ MayFail
               /\ cfg' = refresh_failed(cfg)
               /\ UNCHANGED projects_by_key
          ELSE LET api_key_hash == project.api_keys[1]
                   entry == ProjectConfig(project.id, project.upstream_url,
                                          api_key_hash)
               IN /\ cfg' = [cfg EXCEPT
                               !.new_map = (api_key_hash :> entry) @@ @,
                               !.idx = @ + 1]
                  /\ projects_by_key' = (api_key_hash :> entry) @@ projects_by_key
    /\ UNCHANGED <<loaded, lookup, health, nonRefreshVars>>

\* One pass of the loop over the projects: project["api_keys"][0] raises on
\* a project without a key, otherwise the entry goes into the local new_map.
\* Lookups may run between any two passes.
BuildEntry ==
    /\ cfg.pc = "building"
    /\ cfg.idx <= Len(cfg.data)
    /\ LET project == cfg.data[cfg.idx]
       IN IF project.api_keys = <<>>
          THEN /\ MayFail
               /\ cfg' = refresh_failed(cfg)
          ELSE LET api_key_hash == project.api_keys[1]
                   entry == ProjectConfig(project.id, project.upstream_url,
                                          api_key_hash)
               IN cfg' = [cfg EXCEPT
                            !.new_map = (api_key_hash :> entry) @@ @,
                            !.idx = @ + 1]
    /\ UNCHANGED <<projects_by_key, loaded, lookup, health, nonRefreshVars>>

\* The loop is over: the new map replaces the live one in one assignment,
\* and _fetch_and_update returns.
SwapSnapshot ==
    /\ cfg.pc = "building"
    /\ cfg.idx > Len(cfg.data)
    /\ projects_by_key' = cfg.new_map
    /\ loaded' = cfg.data
    /\ cfg' = refresh_succeeded(cfg)
    /\ UNCHANGED <<lookup, health, nonRefreshVars>>

\* asyncio.sleep(self._current_backoff) is over: the next GET is sent.
RefreshWake ==
    /\ cfg.pc = "sleeping"
    /\ cfg' = [cfg EXCEPT !.pc = "fetching", !.slept = cfg.current_backoff]
    /\ UNCHANGED <<projects_by_key, loaded, lookup, health, nonRefreshVars>>

\* A request handler calls get_project_by_key.
Lookup(api_key_hash) ==
    /\ lookup' = [made |-> TRUE, api_key_hash |-> api_key_hash,
                  result |-> get_project_by_key(projects_by_key, api_key_hash),
                  loaded |-> loaded]
    /\ UNCHANGED <<projects_by_key, cfg, loaded, health, nonRefreshVars>>

\* ConfigManager.get_instance: the singleton, made at import if need be.
get_instance == [raised |-> FALSE, value |-> "ConfigManager"]

\* health_check: "ok" unless get_instance raises.
health_check ==
    IF get_instance.raised
    THEN [asked |-> TRUE, status_code |-> 200, status |-> "initializing"]
    ELSE [asked |-> TRUE, status_code |-> 200, status |-> "ok"]

\* GET /health
Health ==
    /\ health' = health_check
    /\ UNCHANGED <<projects_by_key, cfg, loaded, lookup, nonRefreshVars>>

InitConfig ==
    /\ req = [r \in Reqs |-> IdleRequest]
    /\ projects_by_key = <<>>
    /\ minute = 0
    /\ redis = Redis(<<>>, <<>>, <<>>)
    /\ worker_started = FALSE
    /\ log_queue = <<>>
    /\ dec_in = NoDecisionInput
    /\ dec_out = NoDecision
    /\ LimiterIdle
    /\ RefresherIdle
    /\ SenderIdle

NextConfig ==
    \/ StartBackgroundRefresh
    \/ \E outcome \in FetchOutcomes : FetchResponds(outcome)
    \/ BuildEntry
    \/ SwapSnapshot
    \/ RefreshWake
    \/ \E api_key_hash \in LookupHashes : Lookup(api_key_hash)
    \/ Health

SpecConfig == InitConfig /\ [][NextConfig]_vars

\* The refresher's own steps are taken when they can be: the sleep ends, the
\* GET ends within its 5 s timeout, the loop over the projects runs on.
SpecConfigFair ==
    /\ SpecConfig
    /\ WF_vars(RefreshWake)
    /\ WF_vars(\E outcome \in FetchOutcomes : FetchResponds(outcome))
    /\ WF_vars(BuildEntry)
    /\ WF_vars(SwapSnapshot)

(* --------------------- the audit queue and its sender ----------------- *)

\* The n-th event handed to emit_traffic_event.
Event(n) == [seq |-> n]

\* Events waiting behind the one in flight when the behaviour starts.
Backlogs == {0, QUEUE_MAX_SIZE - 1}

nonSenderVars ==
    <<req, projects_by_key, redis, minute, decisionVars, limiterVars, refreshVars>>

\* Nothing has happened yet; or the sender is POSTing the first event while
\* the events handed over since wait in the queue.
InitAudit ==
    /\ req = [r \in Reqs |-> IdleRequest]
    /\ projects_by_key = <<>>
    /\ minute = 0
    /\ redis = Redis(<<>>, <<>>, <<>>)
    /\ dec_in = NoDecisionInput
    /\ dec_out = NoDecision
    /\ LimiterIdle
    /\ RefresherIdle
    /\ \E backlog \in Backlogs :
          IF backlog = 0
          THEN worker_started = FALSE /\ log_queue = <<>> /\ SenderIdle
          ELSE /\ worker_started = TRUE
               /\ sender = [pc |-> "posting", event |-> Event(1), last |-> "none",
                           tasks |-> 1, closed |-> FALSE, shutdown |-> FALSE]
               /\ posted = <<Event(1)>>
               /\ log_queue = [i \in 1..backlog |-> Event(i + 1)]
               /\ audit = [base |-> backlog + 1, emits |-> backlog + 1,
                           event |-> Event(backlog + 1), ret |-> None,
                           starts |-> 0]

\* A caller hands its event to emit_traffic_event.
EmitCall ==
    LET event   == Event(audit.emits + 1)
        emitted == emit_traffic_event(worker_started, log_queue, event)
    IN /\ audit.emits < audit.base + MaxEmits
       /\ log_queue' = emitted.queue
       /\ audit' = [audit EXCEPT !.emits = @ + 1, !.event = event,
                                 !.ret = emitted.ret]
       /\ UNCHANGED <<worker_started, sender, posted, nonSenderVars>>

\* _traffic_worker: _log_queue.get() returns and the POST of the event is
\* sent.
WorkerGet ==
    /\ sender.pc = "waiting"
    /\ log_queue # <<>>
    /\ Len(posted) < MaxPosts
    /\ LET got == queue_get(log_queue)
       IN /\ log_queue' = got.rest
          /\ IF sender.closed
             THEN \* post raises RuntimeError on the closed client: nothing
                  \* is sent, the exception is logged, task_done.
                  /\ sender' = [sender EXCEPT !.last = "failed"]
                  /\ UNCHANGED posted
             ELSE /\ sender' = [sender EXCEPT !.pc = "posting",
                                              !.event = got.item]
                  /\ posted' = Append(posted, got.item)
    /\ UNCHANGED <<worker_started, audit, nonSenderVars>>

\* The POST ends; an event whose POST failed goes back into the queue.
PostDoneRequeues(outcome) ==
    /\ sender.pc = "posting"
    /\ sender' = [sender EXCEPT !.pc = "waiting", !.event = NoEvent,
                                !.last = outcome]
    /\ log_queue' = IF outcome = "failed" /\ Len(log_queue) < QUEUE_MAX_SIZE
                    THEN Append(log_queue, sender.event)
                    ELSE log_queue
    /\ UNCHANGED <<worker_started, posted, audit, nonSenderVars>>

\* The POST ends; an exception of the POST ends the task.
PostDoneDiesOnError(outcome) ==
    /\ sender.pc = "posting"
    /\ sender' = [sender EXCEPT !.pc = IF outcome = "failed" THEN "dead"
                                       ELSE "waiting",
                                !.event = NoEvent, !.last = outcome]
    /\ UNCHANGED <<worker_started, log_queue, posted, audit, nonSenderVars>>

\* The POST ends, with a response ("sent") or an exception ("failed": no
\* connection, the 0.3 s timeout); either way task_done and the next get.
PostDone(outcome) ==
    /\ sender.pc = "posting"
    /\ sender' = [sender EXCEPT !.pc = "waiting", !.event = NoEvent,
                                !.last = outcome]
    /\ UNCHANGED <<worker_started, log_queue, posted, audit, nonSenderVars>>

\* One more call of start_traffic_logger after the first.
StartTrafficLoggerAgain ==
    /\ worker_started
    /\ audit.starts < MaxStarts
    /\ worker_started' = start_traffic_logger(worker_started, sender).started
    /\ sender' = start_traffic_logger(worker_started, sender).sender
    /\ audit' = [audit EXCEPT !.starts = @ + 1]
    /\ UNCHANGED <<log_queue, posted, nonSenderVars>>

NextAudit ==
    \/ StartTrafficLogger
    \/ StartTrafficLoggerAgain
    \/ EmitCall
    \/ WorkerGet
    \/ \E outcome \in {"sent", "failed"} : PostDone(outcome)

SpecAudit == InitAudit /\ [][NextAudit]_vars

\* A shutdown that leaves the task and the client as they are.
shutdown_traffic_logger_leaves_sender(snd) ==
    [snd EXCEPT !.shutdown = TRUE]

\* shutdown_traffic_logger: the task, if there is one, is cancelled (it is
\* waiting in get or in the POST, and CancelledError passes the except
\* Exception), then the client is closed.
shutdown_traffic_logger(snd) ==
    [snd EXCEPT !.pc = IF snd.tasks > 0 THEN "cancelled" ELSE @,
                !.event = IF snd.tasks > 0 THEN NoEvent ELSE @,
                !.closed = TRUE,
                !.shutdown = TRUE]

ShutdownTrafficLogger ==
    /\ ~sender.shutdown
    /\ sender' = shutdown_traffic_logger(sender)
    /\ UNCHANGED <<worker_started, log_queue, posted, audit, nonSenderVars>>

NextLifecycle ==
    \/ NextAudit
    \/ ShutdownTrafficLogger

\* The audit sender from its start to after its shutdown.
SpecLifecycle == InitAudit /\ [][NextLifecycle]_vars

\* The event loop runs a task that is ready (the sender, once get can
\* return), and a POST ends within its 0.3 s timeout.
SpecAuditFair ==
    /\ SpecAudit
    /\ WF_vars(WorkerGet)
    /\ WF_vars(\E outcome \in {"sent", "failed"} : PostDone(outcome))

(* ------------------ the gateway together with the sender ------------- *)

\* The request handlers of Spec, start_traffic_logger, and the sender
\* draining what the handlers enqueue.
NextPipeline ==
    \/ Next
    \/ WorkerGet
    \/ \E outcome \in {"sent", "failed"} : PostDone(outcome)

\* Earlier traffic left nothing in the KV, or 54 calls in the rate counters.
PipelineScenarios == { <<0, 0, {}>>, <<54, 0, {}>> }

InitPipeline ==
    /\ req = [r \in Reqs |-> IdleRequest]
    /\ projects_by_key = <<>>
    /\ minute = 0
    /\ \E scenario \in PipelineScenarios : redis = KvAfter(scenario, minute)
    /\ worker_started = FALSE
    /\ log_queue = <<>>
    /\ dec_in = NoDecisionInput
    /\ dec_out = NoDecision
    /\ LimiterIdle
    /\ RefresherIdle
    /\ SenderIdle

SpecPipeline == InitPipeline /\ [][NextPipeline]_vars

(* ------------------------------- claims ------------------------------- *)

Terminated(r) == req[r].pc = "done" /\ req[r].handler = "gateway"

KeyMissing(r) == req[r].header = <<>> \/ req[r].header = <<"">>

\* C1: every request the gateway route has answered was handed to the audit
\* pipeline exactly once, whatever the outcome (missing or invalid key,
\* unknown project, BLOCK, upstream unreachable, proxied).
C1_ExactlyOneAuditAttempt ==
    \A r \in Reqs : Terminated(r) => Len(req[r].events) = 1

\* C2: a request is forwarded only if its x-api-key header is present, its
\* key hash matched a ProjectConfig of the snapshot, and make_decision
\* returned ALLOW or THROTTLE; OPTIONS requests are never forwarded.
C2_ForwardOnlyIdentifiedAndNotBlocked ==
    \A r \in Reqs :
        (req[r].forwards > 0 \/ req[r].pc = "forwarding" \/ req[r].upstream # "none") =>
            /\ req[r].handler = "gateway"
            /\ ~KeyMissing(r)
            /\ req[r].api_key_hash = hash_api_key(req[r].header[1])
            /\ req[r].project # <<>>
            /\ req[r].project[1].api_key_hash = req[r].api_key_hash
            /\ req[r].scored
            /\ req[r].decision \in {"ALLOW", "THROTTLE"}

\* A request with a matched project and an ALLOW decision has been forwarded.
C2_Witness ==
    \E r \in Reqs : /\ req[r].forwards = 1
                    /\ req[r].project # <<>>
                    /\ req[r].decision = "ALLOW"

\* C3: a request with no x-api-key header, or an empty one, is answered 401,
\* a BLOCK event with status_code 401 and reason "Missing or invalid API
\* key" is handed to the audit pipeline, and the request is not forwarded.
C3_MissingKeyRejectedAndAudited ==
    \A r \in Reqs :
        (Terminated(r) /\ KeyMissing(r)) =>
            /\ req[r].status = 401
            /\ req[r].forwards = 0
            /\ Len(req[r].events) = 1
            /\ req[r].events[1].decision = "BLOCK"
            /\ req[r].events[1].status_code = 401
            /\ req[r].events[1].reason = "Missing or invalid API key"

\* C4: a request whose key hash is not in the live snapshot is answered 401
\* with detail "Invalid API key", and a BLOCK event with status_code 401 and
\* reason "Invalid API key" is handed to the audit pipeline.
C4_UnknownProjectRejectedAndAudited ==
    \A r \in Reqs :
        (Terminated(r) /\ req[r].api_key_hash # "" /\ req[r].project = <<>>) =>
            /\ req[r].status = 401
            /\ req[r].detail = "Invalid API key"
            /\ Len(req[r].events) = 1
            /\ req[r].events[1].decision = "BLOCK"
            /\ req[r].events[1].status_code = 401
            /\ req[r].events[1].reason = "Invalid API key"

\* C5: when make_decision returns BLOCK for an identified request, the
\* client receives 429 with the decision's reason as detail, and a BLOCK
\* event with status_code 429 and that reason is handed to the audit pipeline.
C5_BlockAnswered429AndAudited ==
    \A r \in Reqs :
        (Terminated(r) /\ req[r].scored /\ req[r].decision = "BLOCK") =>
            /\ req[r].status = 429
            /\ req[r].detail = req[r].reason
            /\ Len(req[r].events) = 1
            /\ req[r].events[1].decision = "BLOCK"
            /\ req[r].events[1].status_code = 429
            /\ req[r].events[1].reason = req[r].reason

\* C6: when the decision is not BLOCK and the upstream answers with status
\* s, the client receives s and an ALLOW event with status_code s is handed
\* to the audit pipeline.
C6_UpstreamStatusReturnedAndAudited ==
    \A r \in Reqs :
        (Terminated(r) /\ req[r].upstream = "responded") =>
            /\ req[r].decision # "BLOCK"
            /\ req[r].status = req[r].upstream_status
            /\ Len(req[r].events) = 1
            /\ req[r].events[1].decision = "ALLOW"
            /\ req[r].events[1].status_code = req[r].upstream_status

\* C7: a request during which a KV call of the rate limiter or the risk
\* scorer failed is not answered 500; it goes on as allowed with risk score
\* 0.0 and its one audit event carries reason "kv_unavailable".
C7_KvFailureFailsOpen ==
    \A r \in Reqs :
        req[r].kv_error =>
            /\ req[r].status # 500
            /\ req[r].risk_score = 0
            /\ (req[r].pc = "done" =>
                   /\ Len(req[r].events) = 1
                   /\ req[r].events[1].reason = "kv_unavailable")

\* C8: when the forward fails with a transport error, the client receives
\* 502, an ALLOW event with reason "Upstream error" and status_code 502 is
\* handed to the audit pipeline, and the forward was attempted once.
C8_UpstreamUnreachable502AndAudited ==
    \A r \in Reqs :
        (Terminated(r) /\ req[r].upstream = "unreachable") =>
            /\ req[r].status = 502
            /\ req[r].forwards = 1
            /\ Len(req[r].events) = 1
            /\ req[r].events[1].decision = "ALLOW"
            /\ req[r].events[1].reason = "Upstream error"
            /\ req[r].events[1].status_code = 502

\* C9: a request whose decision is THROTTLE waits out the throttle sleep
\* before it is forwarded, is forwarded once the sleep has returned, and is
\* never answered 429.
C9_ThrottleSleepsThenForwards ==
    \A r \in Reqs :
        (req[r].scored /\ req[r].decision = "THROTTLE") =>
            /\ req[r].pc \in {"sleeping", "forwarding", "done"}
            /\ req[r].pc = "sleeping" => (~req[r].slept /\ req[r].forwards = 0)
            /\ req[r].forwards > 0 => req[r].slept
            /\ req[r].pc \in {"forwarding", "done"} =>
                   (req[r].slept /\ req[r].forwards = 1)
            /\ req[r].status # 429

\* A throttled request has slept, was forwarded and has been answered.
C9_Witness ==
    \E r \in Reqs : /\ req[r].decision = "THROTTLE"
                    /\ req[r].slept
                    /\ req[r].forwards = 1
                    /\ req[r].pc = "done"

\* C10: make_decision returns the first matching row of: not allowed ->
\* BLOCK "rate limit exceeded"; risk >= 0.9 -> BLOCK "high risk behavior";
\* risk >= 0.6 -> THROTTLE "Abnormal usage pattern detected"; remaining <= 5
\* -> THROTTLE "Approaching rate limit"; otherwise ALLOW.
C10_DecisionTable ==
    dec_out # NoDecision =>
        LET allowed   == dec_in.rate_limit_allowed
            remaining == dec_in.remaining_requests
            risk      == dec_in.ml_risk_score
        IN /\ ~allowed =>
                  dec_out = [decision |-> "BLOCK",
                             reason |-> "Confirmed abuse: rate limit exceeded"]
           /\ (allowed /\ risk >= 90) =>
                  dec_out = [decision |-> "BLOCK",
                             reason |-> "Confirmed abuse: high risk behavior"]
           /\ (allowed /\ risk < 90 /\ risk >= 60) =>
                  dec_out = [decision |-> "THROTTLE",
                             reason |-> "Abnormal usage pattern detected"]
           /\ (allowed /\ risk < 60 /\ remaining <= 5) =>
                  dec_out = [decision |-> "THROTTLE",
                             reason |-> "Approaching rate limit"]
           /\ (allowed /\ risk < 60 /\ remaining > 5) =>
                  dec_out = [decision |-> "ALLOW",
                             reason |-> "Usage within expected behavior"]

\* A rate-limit denial decided against a risk score of 0.9 or more.
C10_Witness ==
    /\ ~dec_in.rate_limit_allowed
    /\ dec_in.ml_risk_score >= 90
    /\ dec_out.decision = "BLOCK"
    /\ dec_out.reason = "Confirmed abuse: rate limit exceeded"

C12_EightyOnePlusAnswered429 ==
    \A r \in Reqs :
        req[r].scored =>
            /\ req[r].rate_allowed => req[r].rate_count <= 80
            /\ req[r].rate_count > 80 =>
                  /\ ~req[r].rate_allowed
                  /\ Terminated(r) =>
                        /\ req[r].status = 429
                        /\ req[r].detail = "Confirmed abuse: rate limit exceeded"
            /\ \A q \in Reqs :
                  (/\ q > r /\ req[q].scored /\ req[q].path = req[r].path
                   /\ req[q].api_key_hash = req[r].api_key_hash
                   /\ ~req[r].rate_allowed) => ~req[q].rate_allowed

\* C13: for velocity v >= 1 and endpoint count d >= 1 the risk score is
\* 0.4*min(v/30,1) + 0.3*(1 if v > 20 else v/20) + 0.3*min(d/5,1) rounded to
\* the nearest hundredth, and lies in [0.0, 1.0]; v = 25 with d = 6 scores at
\* least 0.9, which make_decision blocks as "Confirmed abuse: high risk
\* behavior".  The sum is compared in six-hundredths.
C13_RiskScoreFormulaAndRange ==
    (risk_out.calls > 0 /\ ~risk_out.raised) =>
        LET v     == risk_out.velocity
            d     == risk_out.endpoint_count
            sum   == 8 * Min(v, 30) + (IF v > 20 THEN 180 ELSE 9 * v)
                        + 36 * Min(d, 5)
            score == risk_out.risk_score
        IN /\ v >= 1 /\ d >= 1
           /\ 6 * score - sum <= 3 /\ sum - 6 * score <= 3
           /\ 0 <= score /\ score <= 100
           /\ (v = 25 /\ d = 6) =>
                 /\ score >= 90
                 /\ \A remaining \in 0..MaxRemaining :
                       make_decision(TRUE, remaining, score) =
                          [decision |-> "BLOCK",
                           reason   |-> "Confirmed abuse: high risk behavior"]

\* The 25th request of the window on the sixth endpoint scores 0.93.
C13_Witness ==
    /\ risk_out.calls > 0 /\ ~risk_out.raised
    /\ risk_out.velocity = 25 /\ risk_out.endpoint_count = 6
    /\ risk_out.risk_score = 93

\* C14: a lookup that runs while a refresh is under way sees the complete
\* previous snapshot or the complete new one: the live map is at every moment
\* the whole map of the last loaded response, never the map under
\* construction, and every lookup answered from it.
C14_LookupSeesWholeSnapshot ==
    /\ projects_by_key = new_map(loaded)
    /\ lookup.made =>
          lookup.result = get_project_by_key(new_map(lookup.loaded),
                                             lookup.api_key_hash)

\* A lookup made while the new map held one of two entries was answered from
\* the previous snapshot.
C14_Witness ==
    /\ cfg.pc = "building" /\ cfg.idx = 2 /\ Len(cfg.data) = 2
    /\ lookup.made /\ lookup.loaded = loaded
    /\ Len(loaded) = 1
    /\ lookup.result # <<>>
    /\ lookup.result[1].project_id = "proj_456"

C20_PostsInEnqueueOrder ==
    LET order == posted \o log_queue
    IN \A i, j \in 1..Len(order) : i < j => order[i].seq < order[j].seq

\* Three events were handed over to a running sender and two of them POSTed
\* while the third waits.
C20_Witness ==
    /\ Len(posted) >= 2 /\ posted[Len(posted)].seq = posted[Len(posted) - 1].seq + 1
    /\ Len(log_queue) >= 1 /\ audit.base = 0

\* The queue is drained and no POST is in flight.
SenderQuiet == log_queue = <<>> /\ sender.pc # "posting"

\* C19: a request that completed the pipeline (it was proxied) while the
\* queue was not full has its event POSTed to /internal/traffic by the
\* background sender: once the sender has nothing left to send, a POST was
\* made that carries the request's raw path, canonical endpoint and matched
\* project.
C19_CompletedRequestIsPosted ==
    \A r \in Reqs :
        (Terminated(r) /\ req[r].outcome = "proxied" /\ SenderQuiet) =>
            \E i \in 1..Len(posted) :
                /\ posted[i].path = req[r].path
                /\ posted[i].endpoint = normalize_path(req[r].path)
                /\ posted[i].project_id = req[r].project[1].project_id
                /\ posted[i].status_code = req[r].upstream_status

\* C21: every audit event is POSTed at most once: no event occurs twice
\* among the POSTs made, and an event whose POST was made, failed ones
\* included, is not in the queue again.
C21_PostedAtMostOnce ==
    /\ \A i, j \in 1..Len(posted) : posted[i] = posted[j] => i = j
    /\ \A i \in 1..Len(posted), k \in 1..Len(log_queue) : log_queue[k] # posted[i]
    /\ sender.pc = "posting" =>
          /\ posted # <<>>
          /\ posted[Len(posted)] = sender.event

\* A POST failed, and the sender has since POSTed the next event.
C21_Witness ==
    /\ sender.last = "failed"
    /\ sender.pc = "posting"
    /\ Len(posted) >= 2

\* C22: the sender survives every send error: whichever way the POSTs end,
\* an event in the queue is eventually dequeued and its POST attempted.
C22_EveryEnqueuedEventIsDequeued ==
    \A n \in 1..MaxPosts :
        (\E k \in 1..Len(log_queue) : log_queue[k] = Event(n))
            ~> (\E i \in 1..Len(posted) : posted[i] = Event(n))

\* After two failed POSTs in a row the sender is back at get with an empty
\* queue.
C22_Witness ==
    /\ sender.last = "failed" /\ sender.pc = "waiting"
    /\ Len(posted) >= 2 /\ log_queue = <<>>
    /\ audit.base = 0

\* C23: what a client is answered (the status, its detail, and whether the
\* request was forwarded) does not depend on how the audit POSTs end: two
\* answered requests that took the same course through the handler (key,
\* project, KV failure, decision, upstream answer, event handed over) got the
\* same answer, whatever the sender did before, between and after them.
C23_ResponseIndependentOfAuditPosts ==
    \A r, q \in Reqs :
        (/\ Terminated(r) /\ Terminated(q)
         /\ req[r].header = req[q].header
         /\ req[r].project = req[q].project
         /\ req[r].kv_error = req[q].kv_error
         /\ req[r].scored = req[q].scored
         /\ req[r].decision = req[q].decision
         /\ req[r].reason = req[q].reason
         /\ req[r].upstream = req[q].upstream
         /\ req[r].upstream_status = req[q].upstream_status
         /\ Len(req[r].events) = Len(req[q].events))
        => /\ req[r].status = req[q].status
           /\ req[r].detail = req[q].detail
           /\ req[r].forwards = req[q].forwards

\* Two requests were forwarded and answered alike; the POST for the first
\* one's event failed while the second one's event was still in the queue.
C23_Witness ==
    /\ Terminated(1) /\ Terminated(2)
    /\ req[1].forwards = 1 /\ req[2].forwards = 1
    /\ req[1].upstream_status = req[2].upstream_status
    /\ req[1].status = req[2].status
    /\ sender.last = "failed" /\ posted = req[1].events
    /\ log_queue = req[2].events

\* C24: GET /health answers "ok" only once the config cache is initialized
\* (a snapshot has been loaded from the control plane), and "initializing"
\* in every state before that.
C24_HealthOkOnlyOnceInitialized ==
    health.asked =>
        /\ health.status = "ok" => cfg.ever_loaded
        /\ ~cfg.ever_loaded => health.status = "initializing"

\* C25: every request to a path other than /health, OPTIONS included, goes
\* through the gateway pipeline: the worker never answers an OPTIONS request
\* on its own, and what it returns for one carries no CORS headers of the
\* worker.
C25_OptionsGoesThroughPipeline ==
    \A r \in Reqs :
        req[r].pc = "done" =>
            /\ req[r].handler = "gateway"
            /\ req[r].method = "OPTIONS" => ~req[r].cors

\* C26: in both directions the forwarded header set is the original one
\* minus the hop-by-hop headers, compared case-insensitively: the upstream
\* gets the request's headers without host, Connection and TE, and the
\* client gets the upstream's headers without Transfer-Encoding and
\* Keep-Alive, and no header the upstream did not send.
C26_HeadersForwardedMinusHopByHop ==
    \A r \in Reqs :
        /\ req[r].forwards > 0 => req[r].sent_headers = {"x-api-key", "accept"}
        /\ (Terminated(r) /\ req[r].upstream = "responded") =>
              /\ req[r].response_headers = {"content-type", "x-upstream"}
              /\ req[r].response_headers \subseteq UpstreamResponseHeaders

\* C27: validate accepts every non-empty raw key whatever its length and
\* returns its hash: a request with a key has that key's hash looked up, and
\* a key shorter than 20 characters whose hash is in the snapshot is not
\* turned away with 401 "Invalid API key".
C27_ShortKeyAccepted ==
    \A r \in Reqs :
        (Terminated(r) /\ ~KeyMissing(r)) =>
            /\ req[r].api_key_hash = hash_api_key(req[r].header[1])
            /\ req[r].outcome # "invalid_key"

\* C28: the refresher loop never ends on its own: once started it is always
\* fetching, building or sleeping, and after every failed fetch another
\* fetch is eventually attempted.
C28_FailedFetchIsRetried ==
    /\ [](cfg.pc # "off" => cfg.pc \in {"fetching", "building", "sleeping"})
    /\ (cfg.last_fetch = "failed" /\ cfg.pc # "fetching") ~> (cfg.pc = "fetching")

\* The loop is fetching again after MaxFailures periodic refreshes in a row
\* have failed.
C28_Witness ==
    /\ cfg.pc = "fetching"
    /\ cfg.last_fetch = "failed"
    /\ cfg.phase = "loop"
    /\ cfg.consecutive_failures = MaxFailures

C30_OneSenderTask ==
    /\ sender.tasks <= 1
    /\ worker_started <=> sender.tasks = 1
    /\ sender.pc # "off" <=> sender.tasks = 1

\* start_traffic_logger has been called MaxStarts times more after the
\* first call, and the one task has sent events since.
C30_Witness ==
    /\ audit.starts = MaxStarts
    /\ sender.tasks = 1
    /\ sender.pc = "posting"
    /\ Len(posted) >= 2

\* C31: shutdown cancels the sender and closes the client, and after it no
\* POST is started: the events in the queue, and those handed over later,
\* are never sent.
C31_NoPostAfterShutdown ==
    [][ /\ sender.shutdown => posted' = posted
        /\ (~sender.shutdown /\ sender'.shutdown) =>
              /\ sender'.closed
              /\ sender.tasks > 0 => sender'.pc = "cancelled" ]_vars

\* The sender has sent an event and has been shut down while events wait in
\* the queue, and it could have sent more.
C31_Witness ==
    /\ sender.shutdown
    /\ sender.pc = "cancelled"
    /\ Len(posted) \in 1..(MaxPosts - 1)
    /\ Len(log_queue) >= 2
    /\ audit.emits > audit.base
    /\ audit.event = log_queue[Len(log_queue)]

\* C32: every velocity counter that exists in the KV carries a TTL of at
\* most the 60 s window, also after a handler failed between the INCR and
\* the EXPIRE.
C32_VelocityKeyHasTtl ==
    \A key \in DOMAIN redis.ints :
        key[1] = "ml:velocity" =>
            /\ key \in DOMAIN redis.ttl
            /\ redis.ttl[key] <= WINDOW_SECONDS

\* C33: a request without a key, with a key that fails validation or with a
\* key hash that is not in the snapshot performs no KV operation: the step
\* that answers it leaves every counter and set in the KV as it was.
C33_UnauthenticatedTouchesNoKv ==
    [][ \A r \in Reqs :
           (/\ req[r].pc = "idle"
            /\ req'[r].outcome \in {"missing_key", "invalid_key",
                                    "unknown_project"})
           => redis' = redis ]_vars

\* A request with an unknown key hash has been turned away after another
\* request was counted, and the KV holds what that other request wrote.
C33_Witness ==
    \E r, q \in Reqs :
        /\ q < r
        /\ req[q].scored
        /\ req[r].outcome = "unknown_project"
        /\ req[r].api_key_hash # ""
        /\ req[r].path = req[q].path
        /\ \E key \in DOMAIN redis.ints :
              key[1] = "rate_limit" /\ redis.ints[key] = 1

\* C34: the decision of every audit event, handed over or queued, is ALLOW
\* or BLOCK; a request that was throttled and then forwarded is recorded
\* as ALLOW.
C34_AuditDecisionIsAllowOrBlock ==
    /\ \A r \in Reqs : \A i \in 1..Len(req[r].events) :
           /\ req[r].events[i].decision \in {"ALLOW", "BLOCK"}
           /\ (req[r].slept /\ req[r].forwards > 0) =>
                  req[r].events[i].decision = "ALLOW"
    /\ \A i \in 1..Len(log_queue) : log_queue[i].decision \in {"ALLOW", "BLOCK"}

\* The event of a throttled request whose upstream answered waits in the
\* queue.
C34_Witness ==
    \E r \in Reqs :
        /\ req[r].decision = "THROTTLE"
        /\ req[r].slept
        /\ req[r].upstream = "responded"
        /\ Len(req[r].events) = 1
        /\ req[r].events[1].decision = "ALLOW"
        /\ \E i \in 1..Len(log_queue) : log_queue[i] = req[r].events[1]
====
